---- MODULE Spec2Model ----
(***************************************************************************)
(* A model of ol/source/ogcTileUtil.js: the two link selectors             *)
(* (getMapTileUrlTemplate, getVectorTileUrlTemplate) and the asynchronous  *)
(* pipeline of getTileSetInfo (parseTileSetMetadata, parseTileMatrixSet,   *)
(* tileUrlFunction).                                                       *)
(*                                                                         *)
(* Representation of JavaScript values:                                    *)
(*  - a media type "top/sub" is the pair <<top, sub>>; link types are      *)
(*    media types, so they always contain the "/" (none of them names a    *)
(*    property of Object.prototype, and the lookups in the known-type      *)
(*    tables are lookups of own properties);                               *)
(*  - a string that is used as a URL template is the sequence of its       *)
(*    pieces, literal text and {name} placeholders; the empty string is    *)
(*    <<>>, which is falsy as in JavaScript;                               *)
(*  - a variable that may be undefined is a record [set, val].             *)
(***************************************************************************)
EXTENDS Integers, Sequences, FiniteSets, TLC

\* ------------------------------------------------------------------ bounds
MaxLinks == 3

\* ------------------------------------------------------------ JS values
\* a literal piece of a template string
Lit(s) == [ph |-> FALSE, s |-> s]
\* a {name} placeholder of a template string
Ph(n) == [ph |-> TRUE, s |-> n]

EmptyString == <<>>
Undefined == [set |-> FALSE, val |-> EmptyString]
Defined(v) == [set |-> TRUE, val |-> v]

\* JavaScript truthiness of a string-or-undefined value: undefined and ''
\* are falsy
Truthy(x) == x.set /\ x.val /= EmptyString

\* the mediaType argument left out
NoMediaType == <<"undefined">>

ImagePng == <<"image", "png">>
ImageJpeg == <<"image", "jpeg">>
ImageGif == <<"image", "gif">>
ImageWebp == <<"image", "webp">>
ImageTiff == <<"image", "tiff">>
MapboxVectorTile == <<"application", "vnd.mapbox-vector-tile">>
GeoJson == <<"application", "geo+json">>

knownMapMediaTypes == {ImagePng, ImageJpeg, ImageGif, ImageWebp}

knownVectorMediaTypes == {MapboxVectorTile, GeoJson}

\* link.type.indexOf('image/') === 0
StartsWithImage(type) == type[1] = "image"

NOT_FOUND == "Could not find \"item\" link"

\* ------------------------------------------------------- link selectors
\* the locals of a selector: tileUrlTemplate, fallbackUrlTemplate, and
\* whether the loop has left through break
SelectorLocals == [tileUrlTemplate |-> Undefined,
                   fallbackUrlTemplate |-> Undefined,
                   brk |-> FALSE]

\* mutant: the exact match does not leave the loop
MapBodyNoBreak(link, mediaType, s) ==
  IF link.rel = "item"
  THEN IF link.type = mediaType
       THEN [s EXCEPT !.tileUrlTemplate = Defined(link.href)]
       ELSE IF link.type \in knownMapMediaTypes
            THEN [s EXCEPT !.fallbackUrlTemplate = Defined(link.href)]
            ELSE IF ~Truthy(s.fallbackUrlTemplate) /\ StartsWithImage(link.type)
                 THEN [s EXCEPT !.fallbackUrlTemplate = Defined(link.href)]
                 ELSE s
  ELSE s

\* mutant: an 'image/' link replaces the fallback already found
MapBodyLooseOverrides(link, mediaType, s) ==
  IF link.rel = "item"
  THEN IF link.type = mediaType
       THEN [s EXCEPT !.tileUrlTemplate = Defined(link.href), !.brk = TRUE]
       ELSE IF link.type \in knownMapMediaTypes
            THEN [s EXCEPT !.fallbackUrlTemplate = Defined(link.href)]
            ELSE IF StartsWithImage(link.type)
                 THEN [s EXCEPT !.fallbackUrlTemplate = Defined(link.href)]
                 ELSE s
  ELSE s

\* one iteration of the loop of getMapTileUrlTemplate
MapBody(link, mediaType, s) ==
  IF link.rel = "item"
  THEN IF link.type = mediaType
       THEN [s EXCEPT !.tileUrlTemplate = Defined(link.href), !.brk = TRUE]
       ELSE IF link.type \in knownMapMediaTypes
            THEN [s EXCEPT !.fallbackUrlTemplate = Defined(link.href)]
            ELSE IF ~Truthy(s.fallbackUrlTemplate) /\ StartsWithImage(link.type)
                 THEN [s EXCEPT !.fallbackUrlTemplate = Defined(link.href)]
                 ELSE s
  ELSE s

\* mutant: the vector selector also accepts a type by its prefix
VectorBodyWithPrefix(link, mediaType, s) ==
  IF link.rel = "item"
  THEN IF link.type = mediaType
       THEN [s EXCEPT !.tileUrlTemplate = Defined(link.href), !.brk = TRUE]
       ELSE IF link.type \in knownVectorMediaTypes
            THEN [s EXCEPT !.fallbackUrlTemplate = Defined(link.href)]
            ELSE IF ~Truthy(s.fallbackUrlTemplate) /\ StartsWithImage(link.type)
                 THEN [s EXCEPT !.fallbackUrlTemplate = Defined(link.href)]
                 ELSE s
  ELSE s

\* mutant: the first known type is kept as the fallback
VectorBodyFirstKnown(link, mediaType, s) ==
  IF link.rel = "item"
  THEN IF link.type = mediaType
       THEN [s EXCEPT !.tileUrlTemplate = Defined(link.href), !.brk = TRUE]
       ELSE IF link.type \in knownVectorMediaTypes /\ ~Truthy(s.fallbackUrlTemplate)
            THEN [s EXCEPT !.fallbackUrlTemplate = Defined(link.href)]
            ELSE s
  ELSE s

\* one iteration of the loop of getVectorTileUrlTemplate
VectorBody(link, mediaType, s) ==
  IF link.rel = "item"
  THEN IF link.type = mediaType
       THEN [s EXCEPT !.tileUrlTemplate = Defined(link.href), !.brk = TRUE]
       ELSE IF link.type \in knownVectorMediaTypes
            THEN [s EXCEPT !.fallbackUrlTemplate = Defined(link.href)]
            ELSE s
  ELSE s

\* for (let i = 0; i < links.length; ++i) of getMapTileUrlTemplate,
\* from index i (1-based here) with the locals s
RECURSIVE MapLoop(_, _, _, _)
MapLoop(links, mediaType, i, s) ==
  IF i > Len(links) \/ s.brk
  THEN s
  ELSE MapLoop(links, mediaType, i + 1, MapBody(links[i], mediaType, s))

\* for (let i = 0; i < links.length; ++i) of getVectorTileUrlTemplate
RECURSIVE VectorLoop(_, _, _, _)
VectorLoop(links, mediaType, i, s) ==
  IF i > Len(links) \/ s.brk
  THEN s
  ELSE VectorLoop(links, mediaType, i + 1, VectorBody(links[i], mediaType, s))

Returned(href) == [ok |-> TRUE, href |-> href, error |-> ""]
Thrown(msg) == [ok |-> FALSE, href |-> EmptyString, error |-> msg]

\* the tail of both selectors: if (!tileUrlTemplate) { ... } return
SelectorResult(s) ==
  IF ~Truthy(s.tileUrlTemplate)
  THEN IF Truthy(s.fallbackUrlTemplate)
       THEN Returned(s.fallbackUrlTemplate.val)
       ELSE Thrown(NOT_FOUND)
  ELSE Returned(s.tileUrlTemplate.val)

getMapTileUrlTemplate(links, mediaType) ==
  SelectorResult(MapLoop(links, mediaType, 1, SelectorLocals))

getVectorTileUrlTemplate(links, mediaType) ==
  SelectorResult(VectorLoop(links, mediaType, 1, SelectorLocals))

\* ------------------------------------------------------ selector inputs
\* the href of the link at position i: distinct per position, so that the
\* href returned names the link it was taken from
HrefAt(i) ==
  <<Lit("/"), Ph("tileMatrix"), Lit("/"), Ph("tileRow"), Lit("/"),
    Ph("tileCol")>> \o (IF i = 1 THEN <<>> ELSE <<Lit("." \o ToString(i))>>)

LinkTypes == {ImagePng, ImageJpeg, ImageTiff, MapboxVectorTile, GeoJson}
PreferredTypes == {NoMediaType, ImagePng, ImageTiff, MapboxVectorTile}
Rels == {"item", "self"}

\* what a link may be, but for its href: present (non-empty) or ''
LinkShapes == [rel : Rels, type : LinkTypes, hasHref : BOOLEAN]

\* the link of shape sh at position i
LinkAt(sh, i) ==
  [rel |-> sh.rel, type |-> sh.type,
   href |-> IF sh.hasHref THEN HrefAt(i) ELSE EmptyString]

\* the link list of the shapes shs
LinkList(shs) == [i \in 1..Len(shs) |-> LinkAt(shs[i], i)]

\* --------------------------------------------------------- collaborators
\* a projection of ol/proj: its code and its axis orientation, a string
\* kept as the sequence of its characters
Projection(code, axis) == [code |-> code, axisOrientation |-> axis]
NoProjection == [set |-> FALSE, val |-> Projection("", <<>>)]
Proj3857 == [set |-> TRUE, val |-> Projection("EPSG:3857", <<"e", "n", "u">>)]
Proj4326 == [set |-> TRUE, val |-> Projection("EPSG:4326", <<"n", "e", "u">>)]

\* get(crs) of ol/proj: the registered projection, or none
getProjection(crs) ==
  IF crs = "EPSG:3857" THEN Proj3857
  ELSE IF crs = "EPSG:4326" THEN Proj4326
  ELSE NoProjection

\* resolveUrl(base, url) of ol/net, kept as the pair it is given
resolveUrl(base, url) == [base |-> base, url |-> url]

\* new TileGrid({origins, resolutions, sizes, tileSizes})
TileGrid(origins, resolutions, sizes, tileSizes) ==
  [origins |-> origins, resolutions |-> resolutions, sizes |-> sizes,
   tileSizes |-> tileSizes]

\* assign(target, source) of ol/obj: source's entries win; an undefined
\* source (the empty function here) leaves target as it is
assign(target, source) ==
  [k \in DOMAIN target \cup DOMAIN source |->
     IF k \in DOMAIN source THEN source[k] ELSE target[k]]

\* ------------------------------------------------------- getTileSetInfo
BOTTOM_LEFT_ORIGIN == "bottomLeft"

INVALID_DATA_TYPE == "Expected tileset data type to be \"map\" or \"vector\""
MISSING_MATRIX_SET == "Expected tileMatrixSetDefinition or tileMatrixSet"
UNSUPPORTED_CRS == "Unsupported CRS: "
\* the rejection of getJSON, which the module passes on unchanged
TRANSPORT_ERROR == "getJSON failed"

\* truthiness of an optional plain string (tileMatrixSetDefinition)
TruthyString(x) == x.set /\ x.val /= ""

NoTileGrid == TileGrid(<<>>, <<>>, <<>>, <<>>)
NoContext == [k \in {} |-> ""]
\* a TileSetInfo, with what its urlFunction closes over besides the
\* variable tileUrlTemplate: matrices, context and base
TileSetInfo(grid, urlTemplate, matrices, context, base) ==
  [grid |-> grid, urlTemplate |-> urlTemplate, matrices |-> matrices,
   context |-> context, base |-> base]
NoTileSetInfo == TileSetInfo(NoTileGrid, Undefined, <<>>, NoContext, "")

\* projection.getAxisOrientation().substr(0, 2) !== 'en'
Backwards(projection) ==
  SubSeq(projection.axisOrientation, 1, 2) /= <<"e", "n">>

\* mutant: the origin is stored as it is, whatever the axis order
OriginAsIs(origin, backwards) == origin

\* origins[i] of parseTileMatrixSet
Origin(origin, backwards) ==
  IF backwards THEN <<origin[2], origin[1]>> ELSE origin

\* parseTileMatrixSet(tileMatrixSet) in the call with source info
\* sourceInfo, reading the variable tileUrlTemplate as template
parseTileMatrixSet(sourceInfo, template, tileMatrixSet) ==
  LET projection ==
        IF sourceInfo.projection.set
        THEN sourceInfo.projection
        ELSE getProjection(tileMatrixSet.crs)
      matrices == tileMatrixSet.tileMatrices
      backwards == Backwards(projection.val)
      origins == [i \in 1..Len(matrices) |->
                    Origin(matrices[i].pointOfOrigin, backwards)]
      resolutions == [i \in 1..Len(matrices) |-> matrices[i].cellSize]
      sizes == [i \in 1..Len(matrices) |->
                  <<matrices[i].matrixWidth, matrices[i].matrixHeight>>]
      tileSizes == [i \in 1..Len(matrices) |->
                      <<matrices[i].tileWidth, matrices[i].tileHeight>>]
  IN IF ~projection.set
     THEN [ok |-> FALSE, error |-> UNSUPPORTED_CRS \o tileMatrixSet.crs,
           info |-> NoTileSetInfo]
     ELSE [ok |-> TRUE, error |-> "",
           info |-> TileSetInfo(TileGrid(origins, resolutions, sizes, tileSizes),
                                template, matrices, sourceInfo.context,
                                sourceInfo.url)]

\* tileUrlTemplate.replace(/\{(\w+?)\}/g, (m, p) => localContext[p]):
\* each placeholder becomes the string of its entry, 'undefined' if none
RECURSIVE Replace(_, _)
Replace(template, localContext) ==
  IF template = <<>>
  THEN ""
  ELSE LET t == Head(template)
       IN (IF t.ph
           THEN IF t.s \in DOMAIN localContext
                THEN localContext[t.s]
                ELSE "undefined"
           ELSE t.s) \o Replace(Tail(template), localContext)

NoCoord == <<>>
UrlUndefined == [kind |-> "undefined", url |-> resolveUrl("", "")]
UrlTypeError == [kind |-> "TypeError", url |-> resolveUrl("", "")]

\* mutant: the row is flipped whatever the corner of origin
TileRowAlwaysFlipped(matrix, row) == -row - 1

\* tileRow of localContext
TileRow(matrix, row) ==
  IF matrix.cornerOfOrigin = BOTTOM_LEFT_ORIGIN THEN -row - 1 ELSE row

\* tileUrlFunction(tileCoord) of the TileSetInfo info, reading the variable
\* tileUrlTemplate as template; the numbers of localContext are kept as the
\* strings replace makes of them
tileUrlFunction(info, template, tileCoord) ==
  IF tileCoord = NoCoord
  THEN UrlUndefined
  ELSE IF tileCoord[1] + 1 \notin 1..Len(info.matrices)
       THEN UrlTypeError
       ELSE LET matrix == info.matrices[tileCoord[1] + 1]
                localContext ==
                  [tileMatrix |-> matrix.id,
                   tileCol |-> ToString(tileCoord[2]),
                   tileRow |-> ToString(TileRow(matrix, tileCoord[3]))]
                url == Replace(template.val, assign(localContext, info.context))
            IN [kind |-> "url", url |-> resolveUrl(info.base, url)]

NoTileMatrixSet == [set |-> FALSE, val |-> [crs |-> "", tileMatrices |-> <<>>]]
NoDefinition == [set |-> FALSE, val |-> ""]

\* what parseTileSetMetadata does before it returns: whether it assigns
\* tileUrlTemplate (and what), and then throws, parses the inline matrix
\* set, or fetches the matrix set definition
Metadata(assigns, template, kind, error, url) ==
  [assigns |-> assigns, template |-> template, kind |-> kind,
   error |-> error, url |-> url]

\* mutant: any other data type is read as vector tiles
SelectTemplateVectorByDefault(tileSet, mediaType) ==
  IF tileSet.dataType = "map"
  THEN getMapTileUrlTemplate(tileSet.links, mediaType)
  ELSE getVectorTileUrlTemplate(tileSet.links, mediaType)

\* the dispatch on tileSet.dataType
SelectTemplate(tileSet, mediaType) ==
  IF tileSet.dataType = "map"
  THEN getMapTileUrlTemplate(tileSet.links, mediaType)
  ELSE IF tileSet.dataType = "vector"
       THEN getVectorTileUrlTemplate(tileSet.links, mediaType)
       ELSE Thrown(INVALID_DATA_TYPE)

\* mutant: the definition is fetched even when the matrix set is inline
MatrixSetSourceDefinitionFirst(tileSet) ==
  IF TruthyString(tileSet.tileMatrixSetDefinition) THEN "fetch"
  ELSE IF tileSet.tileMatrixSet.set THEN "inline"
  ELSE "throw"

\* mutant: a missing definition is fetched all the same
MatrixSetSourceNoCheck(tileSet) ==
  IF tileSet.tileMatrixSet.set THEN "inline" ELSE "fetch"

\* where parseTileSetMetadata takes the matrix set from
MatrixSetSource(tileSet) ==
  IF tileSet.tileMatrixSet.set THEN "inline"
  ELSE IF ~TruthyString(tileSet.tileMatrixSetDefinition) THEN "throw"
  ELSE "fetch"

parseTileSetMetadata(sourceInfo, tileSet) ==
  LET selected == SelectTemplate(tileSet, sourceInfo.mediaType)
      source == MatrixSetSource(tileSet)
  IN IF ~selected.ok
     THEN Metadata(FALSE, EmptyString, "throw", selected.error,
                   resolveUrl("", ""))
     ELSE IF source = "inline"
          THEN Metadata(TRUE, selected.href, "inline", "", resolveUrl("", ""))
          ELSE IF source = "throw"
               THEN Metadata(TRUE, selected.href, "throw", MISSING_MATRIX_SET,
                             resolveUrl("", ""))
               ELSE Metadata(TRUE, selected.href, "fetch", "",
                             resolveUrl(sourceInfo.url,
                                        tileSet.tileMatrixSetDefinition.val))

\* ------------------------------------------------------- pipeline bounds
NumCalls == 2
MaxMatrices == 2

Calls == 1..NumCalls

\* ------------------------------------------------------- pipeline inputs
SourceUrl == "https://maps.example/tiles/WebMercatorQuad"

SourceInfo(url, mediaType, projection, context) ==
  [url |-> url, mediaType |-> mediaType, projection |-> projection,
   context |-> context]
NoSourceInfo == SourceInfo("", NoMediaType, NoProjection, NoContext)

\* the contexts a caller passes: none, one with a key of its own, one that
\* overrides tileRow
Contexts == {NoContext, [style |-> "default"], [tileRow |-> "9"]}

SourceInfos ==
  {SourceInfo(SourceUrl, m, p, x) :
     m \in {NoMediaType, ImagePng},
     p \in {NoProjection, Proj3857, Proj4326},
     x \in Contexts}

\* the tile matrix of level z, with its id and corner of origin
\* ("unset": the field is left out)
TileMatrix(z, id, corner) ==
  [id |-> id, cellSize |-> 1024 - 256 * z, pointOfOrigin |-> <<-180, 90>>,
   cornerOfOrigin |-> corner, matrixWidth |-> z + 1, matrixHeight |-> z + 1,
   tileWidth |-> 256, tileHeight |-> 256]

Corners == {"unset", "topLeft", "bottomLeft"}

\* the id of level z: its number, or a name
MatrixId(style, z) == IF style = "number" THEN ToString(z) ELSE "L" \o ToString(z)

TileMatrixSet(crs, matrices) == [crs |-> crs, tileMatrices |-> matrices]

\* the matrix sets with ids of one style: any CRS, up to MaxMatrices
\* levels, any corner of origin at each level
MatrixSetsOf(style) ==
  {TileMatrixSet(crs, [i \in 1..n |-> TileMatrix(i - 1, MatrixId(style, i - 1), cs[i])]) :
     crs \in {"EPSG:3857", "EPSG:4326", "EPSG:0"},
     n \in 0..MaxMatrices, cs \in [1..MaxMatrices -> Corners]}

TileMatrixSets == MatrixSetsOf("number") \cup MatrixSetsOf("name")

\* the link lists of the tile set documents: one with raster and vector
\* links, one with vector links only, one with no link to select
DocLinkLists ==
  {LinkList(shs) : shs \in
     {<<[rel |-> "item", type |-> ImagePng, hasHref |-> TRUE],
        [rel |-> "item", type |-> ImageJpeg, hasHref |-> TRUE],
        [rel |-> "item", type |-> MapboxVectorTile, hasHref |-> TRUE],
        [rel |-> "item", type |-> GeoJson, hasHref |-> TRUE]>>,
      <<[rel |-> "item", type |-> MapboxVectorTile, hasHref |-> TRUE]>>,
      <<[rel |-> "item", type |-> ImageTiff, hasHref |-> FALSE],
        [rel |-> "self", type |-> ImagePng, hasHref |-> TRUE]>>}}

TileSet(dataType, links, tileMatrixSet, tileMatrixSetDefinition) ==
  [dataType |-> dataType, links |-> links, tileMatrixSet |-> tileMatrixSet,
   tileMatrixSetDefinition |-> tileMatrixSetDefinition]
NoTileSet == TileSet("unset", <<>>, NoTileMatrixSet, NoDefinition)

Definitions ==
  {NoDefinition, [set |-> TRUE, val |-> ""],
   [set |-> TRUE, val |-> "/tileMatrixSets/WebMercatorQuad"]}

\* the tile set documents a server may answer with ("unset": no dataType)
TileSets ==
  {TileSet(d, l, t, def) :
     d \in {"map", "vector", "coverage", "unset"},
     l \in DocLinkLists,
     t \in {NoTileMatrixSet}
            \cup {[set |-> TRUE, val |-> x] : x \in MatrixSetsOf("number")},
     def \in Definitions}

\* no coordinate, and one at each level and one past the last
TileCoords == {NoCoord} \cup {<<z, 2, 3>> : z \in 0..MaxMatrices}

\* --------------------------------------------------------------- state
\* a response of getJSON as the call received it
NoResponse == "none"

VARIABLES
  selLinks,      \* the links argument of the selector call
  selMediaType,  \* its mediaType argument
  selFn,         \* "none" before the call, then "map" or "vector"
  selResult,     \* what the call returned or threw
  pc,            \* per call: "idle", "fetchRoot", "fetchMatrixSet",
                 \* "resolved", "rejected"
  sourceInfo,    \* per call: the argument of getTileSetInfo
  tileUrlTemplate, \* per closure: let tileUrlTemplate of getTileSetInfo
  fetches,       \* per call: the URLs given to getJSON, in order
  pending,       \* per call: the requests not yet answered
  rootAnswer,    \* per call: "none", "ok" or "failed"
  tileSet,       \* per call: the tile set document received
  matrixSet,     \* per call: the matrix set given to parseTileMatrixSet
  error,         \* per call: the message of the rejection
  tileSetInfo,   \* per call: the TileSetInfo the promise resolved with
  lastCall       \* per call: the last urlFunction call, [coord, result]

selVars == <<selLinks, selMediaType, selFn, selResult>>
callVars == <<pc, sourceInfo, tileUrlTemplate, fetches, pending, rootAnswer,
              tileSet, matrixSet, error, tileSetInfo, lastCall>>

vars == <<selLinks, selMediaType, selFn, selResult, pc, sourceInfo,
          tileUrlTemplate, fetches, pending, rootAnswer, tileSet, matrixSet,
          error, tileSetInfo, lastCall>>

NoCall == [coord |-> NoCoord, result |-> UrlUndefined, called |-> FALSE]

\* no call of getTileSetInfo made yet
CallInit ==
  /\ pc = [c \in Calls |-> "idle"]
  /\ sourceInfo = [c \in Calls |-> NoSourceInfo]
  /\ tileUrlTemplate = [c \in Calls |-> Undefined]
  /\ fetches = [c \in Calls |-> <<>>]
  /\ pending = [c \in Calls |-> {}]
  /\ rootAnswer = [c \in Calls |-> NoResponse]
  /\ tileSet = [c \in Calls |-> NoTileSet]
  /\ matrixSet = [c \in Calls |-> NoTileMatrixSet]
  /\ error = [c \in Calls |-> ""]
  /\ tileSetInfo = [c \in Calls |-> NoTileSetInfo]
  /\ lastCall = [c \in Calls |-> NoCall]

\* no selector call under way
SelIdle ==
  /\ selLinks = <<>>
  /\ selMediaType = NoMediaType
  /\ selFn = "none"
  /\ selResult = Thrown("")

\* mutant: tileUrlTemplate is one variable of the module, shared by all calls
SlotShared(c) == 1

\* the variable tileUrlTemplate of call c: a local of getTileSetInfo, so
\* each call has its own
Slot(c) == c

\* the URL of the root document as a request
RootRequest(url) == resolveUrl(url, "")

\* getTileSetInfo(si), up to the return of the promise
GetTileSetInfo(c, si) ==
  /\ pc[c] = "idle"
  /\ sourceInfo' = [sourceInfo EXCEPT ![c] = si]
  /\ fetches' = [fetches EXCEPT ![c] = Append(@, RootRequest(si.url))]
  /\ pending' = [pending EXCEPT ![c] = @ \cup {RootRequest(si.url)}]
  /\ pc' = [pc EXCEPT ![c] = "fetchRoot"]
  /\ UNCHANGED <<tileUrlTemplate, rootAnswer, tileSet, matrixSet, error,
                 tileSetInfo, lastCall, selVars>>

\* the promise of call c settles with the outcome of parseTileMatrixSet
Settle(c, parsed) ==
  /\ pc' = [pc EXCEPT ![c] = IF parsed.ok THEN "resolved" ELSE "rejected"]
  /\ error' = [error EXCEPT ![c] = parsed.error]
  /\ tileSetInfo' = [tileSetInfo EXCEPT ![c] = parsed.info]

\* getJSON(sourceInfo.url) answers with ts: parseTileSetMetadata(ts) runs
RootLoaded(c, ts) ==
  /\ pc[c] = "fetchRoot"
  /\ rootAnswer' = [rootAnswer EXCEPT ![c] = "ok"]
  /\ tileSet' = [tileSet EXCEPT ![c] = ts]
  /\ LET meta == parseTileSetMetadata(sourceInfo[c], ts)
         answered == pending[c] \ {RootRequest(sourceInfo[c].url)}
     IN /\ tileUrlTemplate' =
             IF meta.assigns
             THEN [tileUrlTemplate EXCEPT ![Slot(c)] = Defined(meta.template)]
             ELSE tileUrlTemplate
        /\ IF meta.kind = "throw"
           THEN /\ pc' = [pc EXCEPT ![c] = "rejected"]
                /\ error' = [error EXCEPT ![c] = meta.error]
                /\ pending' = [pending EXCEPT ![c] = answered]
                /\ UNCHANGED <<fetches, matrixSet, tileSetInfo>>
           ELSE IF meta.kind = "inline"
                THEN /\ Settle(c, parseTileMatrixSet(sourceInfo[c],
                                   tileUrlTemplate'[Slot(c)], ts.tileMatrixSet.val))
                     /\ matrixSet' = [matrixSet EXCEPT ![c] = ts.tileMatrixSet]
                     /\ pending' = [pending EXCEPT ![c] = answered]
                     /\ UNCHANGED fetches
                ELSE /\ pc' = [pc EXCEPT ![c] = "fetchMatrixSet"]
                     /\ fetches' = [fetches EXCEPT ![c] = Append(@, meta.url)]
                     /\ pending' = [pending EXCEPT ![c] = answered \cup {meta.url}]
                     /\ UNCHANGED <<matrixSet, error, tileSetInfo>>
  /\ UNCHANGED <<sourceInfo, lastCall, selVars>>

\* getJSON(sourceInfo.url) fails: the promise is rejected
RootFailed(c) ==
  /\ pc[c] = "fetchRoot"
  /\ rootAnswer' = [rootAnswer EXCEPT ![c] = "failed"]
  /\ pc' = [pc EXCEPT ![c] = "rejected"]
  /\ error' = [error EXCEPT ![c] = TRANSPORT_ERROR]
  /\ pending' = [pending EXCEPT ![c] = {}]
  /\ UNCHANGED <<sourceInfo, tileUrlTemplate, fetches, tileSet, matrixSet,
                 tileSetInfo, lastCall, selVars>>

\* getJSON(url) of the matrix set definition answers with tms:
\* parseTileMatrixSet(tms) runs
MatrixSetLoaded(c, tms) ==
  /\ pc[c] = "fetchMatrixSet"
  /\ Settle(c, parseTileMatrixSet(sourceInfo[c], tileUrlTemplate[Slot(c)], tms))
  /\ matrixSet' = [matrixSet EXCEPT ![c] = [set |-> TRUE, val |-> tms]]
  /\ pending' = [pending EXCEPT ![c] = {}]
  /\ UNCHANGED <<sourceInfo, tileUrlTemplate, fetches, rootAnswer, tileSet,
                 lastCall, selVars>>

\* getJSON(url) of the matrix set definition fails
MatrixSetFailed(c) ==
  /\ pc[c] = "fetchMatrixSet"
  /\ pc' = [pc EXCEPT ![c] = "rejected"]
  /\ error' = [error EXCEPT ![c] = TRANSPORT_ERROR]
  /\ pending' = [pending EXCEPT ![c] = {}]
  /\ UNCHANGED <<sourceInfo, tileUrlTemplate, fetches, rootAnswer, tileSet,
                 matrixSet, tileSetInfo, lastCall, selVars>>

\* the caller calls the urlFunction of the TileSetInfo it was given
CallUrlFunction(c, tileCoord) ==
  /\ pc[c] = "resolved"
  /\ lastCall' = [lastCall EXCEPT ![c] =
       [coord |-> tileCoord,
        result |-> tileUrlFunction(tileSetInfo[c], tileUrlTemplate[Slot(c)],
                                   tileCoord),
        called |-> TRUE]]
  /\ UNCHANGED <<pc, sourceInfo, tileUrlTemplate, fetches, pending,
                 rootAnswer, tileSet, matrixSet, error, tileSetInfo, selVars>>

\* one call of getTileSetInfo, any source info, any answers
Init == CallInit /\ SelIdle

Next ==
  \/ \E si \in SourceInfos : GetTileSetInfo(1, si)
  \/ \E ts \in TileSets : RootLoaded(1, ts)
  \/ RootFailed(1)
  \/ \E tms \in TileMatrixSets : MatrixSetLoaded(1, tms)
  \/ MatrixSetFailed(1)
  \/ \E tc \in TileCoords : CallUrlFunction(1, tc)

Spec == Init /\ [][Next]_vars

\* ------------------------------------------------------ concurrent calls
\* the source infos of the concurrent calls: the same source, with and
\* without a preferred media type
ConcSourceInfos ==
  {SourceInfo(SourceUrl, m, NoProjection, NoContext) :
     m \in {NoMediaType, ImagePng}}

ConcMatrixSets ==
  {TileMatrixSet("EPSG:3857",
     <<TileMatrix(0, "0", "topLeft"), TileMatrix(1, "1", corner)>>) :
     corner \in {"topLeft", "bottomLeft"}}

\* the documents the concurrent calls are answered with: one that refers
\* to its matrix set, one that holds it, one with no link to select
ConcTileSets ==
  {TileSet("map", LinkList(
       <<[rel |-> "item", type |-> ImagePng, hasHref |-> TRUE],
         [rel |-> "item", type |-> ImageJpeg, hasHref |-> TRUE]>>),
     NoTileMatrixSet,
     [set |-> TRUE, val |-> "/tileMatrixSets/WebMercatorQuad"]),
   TileSet("vector", LinkList(
       <<[rel |-> "item", type |-> ImagePng, hasHref |-> TRUE],
         [rel |-> "item", type |-> ImageJpeg, hasHref |-> TRUE],
         [rel |-> "item", type |-> GeoJson, hasHref |-> TRUE]>>),
     [set |-> TRUE,
      val |-> TileMatrixSet("EPSG:3857", <<TileMatrix(0, "0", "topLeft"),
                                          TileMatrix(1, "1", "topLeft")>>)],
     NoDefinition),
   TileSet("map", <<>>, NoTileMatrixSet, NoDefinition)}

\* NumCalls calls of getTileSetInfo under way at once, their answers
\* arriving in any order
ConcNext ==
  \E c \in Calls :
    \/ \E si \in ConcSourceInfos : GetTileSetInfo(c, si)
    \/ \E ts \in ConcTileSets : RootLoaded(c, ts)
    \/ RootFailed(c)
    \/ \E tms \in ConcMatrixSets : MatrixSetLoaded(c, tms)
    \/ MatrixSetFailed(c)
    \/ CallUrlFunction(c, <<1, 2, 3>>)

ConcSpec == Init /\ [][ConcNext]_vars

\* ------------------------------------------- the selectors called directly
SelInit ==
  /\ \E n \in 0..MaxLinks : \E shs \in [1..n -> LinkShapes] :
       selLinks = LinkList(shs)
  /\ selMediaType \in PreferredTypes
  /\ selFn = "none"
  /\ selResult = Thrown("")
  /\ CallInit

CallGetMapTileUrlTemplate ==
  /\ selFn = "none"
  /\ selFn' = "map"
  /\ selResult' = getMapTileUrlTemplate(selLinks, selMediaType)
  /\ UNCHANGED <<selLinks, selMediaType, callVars>>

CallGetVectorTileUrlTemplate ==
  /\ selFn = "none"
  /\ selFn' = "vector"
  /\ selResult' = getVectorTileUrlTemplate(selLinks, selMediaType)
  /\ UNCHANGED <<selLinks, selMediaType, callVars>>

SelNext ==
  \/ CallGetMapTileUrlTemplate
  \/ CallGetVectorTileUrlTemplate

SelSpec == SelInit /\ [][SelNext]_vars

\* ================================================== claims: the selectors
\* the known types as the claims list them
ClaimKnownMap ==
  {<<"image", "png">>, <<"image", "jpeg">>, <<"image", "gif">>,
   <<"image", "webp">>}
ClaimKnownVector ==
  {<<"application", "vnd.mapbox-vector-tile">>, <<"application", "geo+json">>}
ClaimKnown == IF selFn = "map" THEN ClaimKnownMap ELSE ClaimKnownVector

SelCalled == selFn /= "none"
SelIdx == 1..Len(selLinks)
IsItem(i) == selLinks[i].rel = "item"
ExactIdx == {i \in SelIdx : IsItem(i) /\ selLinks[i].type = selMediaType}
KnownIdx == {i \in SelIdx : IsItem(i) /\ selLinks[i].type \in ClaimKnown}
\* 'item' links whose type only starts with 'image/'
LooseIdx ==
  {i \in SelIdx : IsItem(i) /\ selLinks[i].type[1] = "image"
                    /\ selLinks[i].type \notin ClaimKnownMap}
MinOf(S) == CHOOSE i \in S : \A j \in S : i <= j
MaxOf(S) == CHOOSE i \in S : \A j \in S : j <= i
AllHrefsNonEmpty == \A i \in SelIdx : selLinks[i].href /= <<>>

\* C1: when some 'item' link has exactly the preferred media type and all
\* hrefs are non-empty, either selector returns the href of the first such
\* link in scan order, whatever stands before or after it.
C1_ExactMatchWins ==
  (SelCalled /\ AllHrefsNonEmpty /\ ExactIdx /= {})
    => (selResult.ok /\ selResult.href = selLinks[MinOf(ExactIdx)].href)

\* C1 witness: the map selector returned the exact match standing second,
\* after a known-type 'item' link and before another one.
C1_Witness ==
  /\ selFn = "map" /\ Len(selLinks) = 3 /\ AllHrefsNonEmpty
  /\ ExactIdx = {2} /\ KnownIdx = {1, 3}
  /\ selResult.ok /\ selResult.href = selLinks[2].href

\* the href of a known-type 'item' link was returned, and (map) it is not
\* one taken from a link whose type only starts with 'image/'
ReturnedKnown ==
  /\ selResult.ok
  /\ \E i \in KnownIdx : selResult.href = selLinks[i].href
  /\ selFn = "map" => \A j \in LooseIdx : selResult.href /= selLinks[j].href

\* C2 as stated: with no exact 'item' link and at least one known-type
\* 'item' link, the selector returns the href of a known-type 'item' link,
\* and the map selector never that of a link that is only 'image/'-prefixed.
C2_Original ==
  (SelCalled /\ ExactIdx = {} /\ KnownIdx /= {}) => ReturnedKnown

\* C2 as amended: the same, provided the last known-type 'item' link in
\* scan order has a non-empty href.
C2_KnownBeatsLoose ==
  (SelCalled /\ ExactIdx = {} /\ KnownIdx /= {}
     /\ selLinks[MaxOf(KnownIdx)].href /= <<>>) => ReturnedKnown

\* C2 witness: the map selector returned the known-type link standing
\* between two 'item' links that are only 'image/'-prefixed.
C2_Witness ==
  /\ selFn = "map" /\ Len(selLinks) = 3 /\ AllHrefsNonEmpty
  /\ ExactIdx = {} /\ KnownIdx = {2} /\ LooseIdx = {1, 3}
  /\ selResult.ok /\ selResult.href = selLinks[2].href

\* no 'item' link has the preferred type, a known type or (map selector)
\* a type starting with 'image/'
NoSelectableType ==
  \A i \in SelIdx :
    IsItem(i) =>
      /\ selLinks[i].type /= selMediaType
      /\ selLinks[i].type \notin ClaimKnown
      /\ selFn = "map" => selLinks[i].type[1] /= "image"

\* C3: both selectors fail with 'Could not find "item" link', returning no
\* href, when no 'item' link has the exact, a known or (map only) an
\* 'image/'-prefixed type.
C3_NotFound ==
  (SelCalled /\ NoSelectableType)
    => (~selResult.ok /\ selResult.error = "Could not find \"item\" link"
        /\ selResult.href = <<>>)

\* C3 witness: the vector selector threw on a list whose only 'item' links
\* have image types, one of them with a non-empty href, while a matching
\* type sits on a link that is not an 'item'.
C3_Witness ==
  /\ selFn = "vector" /\ Len(selLinks) = 3 /\ NoSelectableType
  /\ IsItem(1) /\ selLinks[1].type = <<"image", "png">>
  /\ selLinks[1].href /= <<>>
  /\ ~IsItem(2) /\ selLinks[2].type = <<"application", "geo+json">>
  /\ IsItem(3) /\ selLinks[3].type = <<"image", "tiff">>
  /\ ~selResult.ok /\ selResult.error = "Could not find \"item\" link"

\* C10 as stated: with no exact 'item' link and several known-type 'item'
\* links, each selector returns the href of the last of them in scan order.
C10_Original ==
  (SelCalled /\ ExactIdx = {} /\ Cardinality(KnownIdx) >= 2)
    => (selResult.ok /\ selResult.href = selLinks[MaxOf(KnownIdx)].href)

\* C10 as amended: the same, provided that last known-type 'item' link has
\* a non-empty href.
C10_LastKnownWins ==
  (SelCalled /\ ExactIdx = {} /\ Cardinality(KnownIdx) >= 2
     /\ selLinks[MaxOf(KnownIdx)].href /= <<>>)
    => (selResult.ok /\ selResult.href = selLinks[MaxOf(KnownIdx)].href)

\* C10 witness: the vector selector, called without a preferred type,
\* returned the second of two known-type 'item' links.
C10_Witness ==
  /\ selFn = "vector" /\ selMediaType = <<"undefined">>
  /\ Len(selLinks) = 2 /\ KnownIdx = {1, 2} /\ AllHrefsNonEmpty
  /\ selResult.ok /\ selResult.href = selLinks[2].href
  /\ selResult.href /= selLinks[1].href

\* ================================================ claims: getTileSetInfo
RootOk(c) == rootAnswer[c] = "ok"
ValidDataType(c) == tileSet[c].dataType \in {"map", "vector"}
\* the selector of the document's data type, on the document's links
Selected(c) ==
  IF tileSet[c].dataType = "map"
  THEN getMapTileUrlTemplate(tileSet[c].links, sourceInfo[c].mediaType)
  ELSE getVectorTileUrlTemplate(tileSet[c].links, sourceInfo[c].mediaType)
HasInline(c) == tileSet[c].tileMatrixSet.set
HasDefinition(c) == tileSet[c].tileMatrixSetDefinition.set

\* C4: a call issues at most two fetches and never two at once; the first
\* is the root document; the second is issued only once the root fetch has
\* succeeded with a document of data type 'map' or 'vector' that has a
\* selectable link, no inline tileMatrixSet and a tileMatrixSetDefinition;
\* a root document with an inline tileMatrixSet means exactly one fetch.
C4_AtMostTwoSequentialFetches ==
  \A c \in Calls :
    /\ Len(fetches[c]) <= 2
    /\ Cardinality(pending[c]) <= 1
    /\ pc[c] /= "idle" =>
         /\ Len(fetches[c]) >= 1
         /\ fetches[c][1] = [base |-> sourceInfo[c].url, url |-> ""]
    /\ Len(fetches[c]) = 2 =>
         /\ RootOk(c)
         /\ fetches[c][1] \notin pending[c]
         /\ ValidDataType(c) /\ Selected(c).ok
         /\ ~HasInline(c) /\ HasDefinition(c)
    /\ (RootOk(c) /\ HasInline(c)) => Len(fetches[c]) = 1

\* C4 witness: a call resolved after its second fetch, both answered.
C4_Witness ==
  /\ pc[1] = "resolved" /\ Len(fetches[1]) = 2 /\ pending[1] = {}
  /\ fetches[1][2] = [base |-> sourceInfo[1].url,
                      url |-> "/tileMatrixSets/WebMercatorQuad"]

\* the URL expected of a template "/{tileMatrix}/{tileRow}/{tileCol}" and
\* its literal suffix, if any
ExpectedUrl(template, tileMatrix, tileCol, tileRow) ==
  "/" \o tileMatrix \o "/" \o ToString(tileRow) \o "/" \o ToString(tileCol)
    \o (IF Len(template) > 6 THEN template[7].s ELSE "")

\* C5: for a tile coordinate [z, col, row] with z an index of tileMatrices
\* and a context that overrides none of the keys, urlFunction substitutes
\* tileMatrix = the id of matrix z, tileCol = col and tileRow = row when
\* cornerOfOrigin is unset or 'topLeft', -row - 1 when it is 'bottomLeft';
\* "/{tileMatrix}/{tileRow}/{tileCol}" with a top-left origin gives
\* "/1/3/2" for [1, 2, 3].
C5_UrlFunctionSubstitutes ==
  \A c \in Calls :
    LET call == lastCall[c]
        info == tileSetInfo[c]
        z == call.coord[1]
        col == call.coord[2]
        row == call.coord[3]
        matrix == info.matrices[z + 1]
    IN (/\ call.called /\ call.coord /= <<>>
        /\ z + 1 \in 1..Len(info.matrices)
        /\ DOMAIN info.context \cap {"tileMatrix", "tileCol", "tileRow"} = {})
       => /\ call.result.kind = "url"
          /\ call.result.url.base = sourceInfo[c].url
          /\ matrix.cornerOfOrigin \in {"unset", "topLeft"} =>
               call.result.url.url =
                 ExpectedUrl(info.urlTemplate.val, matrix.id, col, row)
          /\ matrix.cornerOfOrigin = "bottomLeft" =>
               call.result.url.url =
                 ExpectedUrl(info.urlTemplate.val, matrix.id, col, -row - 1)
          /\ (/\ Len(info.urlTemplate.val) = 6 /\ matrix.id = "1"
              /\ matrix.cornerOfOrigin /= "bottomLeft"
              /\ call.coord = <<1, 2, 3>>) => call.result.url.url = "/1/3/2"

\* C5 witness: urlFunction([1, 2, 3]) gave "/1/3/2" on a top-left matrix,
\* the caller's context holding a key of its own.
C5_Witness ==
  /\ lastCall[1].called /\ lastCall[1].coord = <<1, 2, 3>>
  /\ Len(tileSetInfo[1].matrices) >= 2
  /\ tileSetInfo[1].matrices[2].cornerOfOrigin = "topLeft"
  /\ tileSetInfo[1].context = [style |-> "default"]
  /\ lastCall[1].result.url.url = "/1/3/2"

\* C6: a root document whose dataType is neither 'map' nor 'vector'
\* (absent included) rejects the call with the invalid-data-type error,
\* whatever its links, tileMatrixSet and tileMatrixSetDefinition, and no
\* matrix-set fetch is issued; 'map' selects with the map selector and
\* 'vector' with the vector selector.
C6_InvalidDataType ==
  \A c \in Calls :
    RootOk(c) =>
      /\ ~ValidDataType(c) =>
           /\ pc[c] = "rejected"
           /\ error[c] = "Expected tileset data type to be \"map\" or \"vector\""
           /\ Len(fetches[c]) = 1 /\ pending[c] = {}
      /\ ValidDataType(c) =>
           IF Selected(c).ok
           THEN tileUrlTemplate[c] = [set |-> TRUE, val |-> Selected(c).href]
           ELSE pc[c] = "rejected" /\ error[c] = "Could not find \"item\" link"

\* C6 witness: a 'coverage' document with selectable links, an inline
\* matrix set and a definition was rejected.
C6_Witness ==
  /\ RootOk(1) /\ tileSet[1].dataType = "coverage"
  /\ Len(tileSet[1].links) = 4 /\ HasInline(1)
  /\ tileSet[1].tileMatrixSetDefinition.val /= ""
  /\ pc[1] = "rejected"

\* C7: a root document of data type 'map' or 'vector' with a selectable
\* link but neither tileMatrixSet nor tileMatrixSetDefinition rejects the
\* call with the missing-matrix-set error; no second fetch is issued and
\* the call never resolves with a TileSetInfo.
C7_MissingMatrixSet ==
  \A c \in Calls :
    (RootOk(c) /\ ValidDataType(c) /\ Selected(c).ok
       /\ ~HasInline(c) /\ ~HasDefinition(c))
    => /\ pc[c] = "rejected"
       /\ error[c] = "Expected tileMatrixSetDefinition or tileMatrixSet"
       /\ Len(fetches[c]) = 1 /\ pending[c] = {}
       /\ tileSetInfo[c].urlTemplate.set = FALSE

\* C7 witness: a 'vector' document with a selectable link and no matrix
\* set of either kind was rejected.
C7_Witness ==
  /\ RootOk(1) /\ tileSet[1].dataType = "vector" /\ Selected(1).ok
  /\ ~HasInline(1) /\ ~HasDefinition(1)
  /\ pc[1] = "rejected"

\* the projection parseTileMatrixSet resolves: the caller's, else the one
\* registered for the matrix set's CRS
ResolvedProjection(c) ==
  IF sourceInfo[c].projection.set
  THEN sourceInfo[c].projection.val
  ELSE getProjection(matrixSet[c].val.crs).val
StartsWithEn(axis) == Len(axis) >= 2 /\ axis[1] = "e" /\ axis[2] = "n"

\* C9: for every tile matrix i, the grid's origin at level i is
\* [pointOfOrigin[1], pointOfOrigin[0]] when the resolved projection's axis
\* orientation does not start with 'en', and pointOfOrigin when it does;
\* the resolved projection is the caller's when given, else that of the CRS.
C9_AxisOrderFlip ==
  \A c \in Calls :
    pc[c] = "resolved" =>
      LET matrices == matrixSet[c].val.tileMatrices
          origins == tileSetInfo[c].grid.origins
      IN /\ Len(origins) = Len(matrices)
         /\ \A i \in 1..Len(matrices) :
              origins[i] =
                IF StartsWithEn(ResolvedProjection(c).axisOrientation)
                THEN matrices[i].pointOfOrigin
                ELSE <<matrices[i].pointOfOrigin[2], matrices[i].pointOfOrigin[1]>>

\* C9 witness: the caller's north-east projection decided over the CRS of
\* the matrix set, and the origins were swapped.
C9_Witness ==
  /\ pc[1] = "resolved"
  /\ sourceInfo[1].projection.set
  /\ sourceInfo[1].projection.val.code = "EPSG:4326"
  /\ matrixSet[1].val.crs = "EPSG:3857"
  /\ Len(tileSetInfo[1].grid.origins) = 2
  /\ tileSetInfo[1].grid.origins[2] = <<90, -180>>

\* what call c comes to when it runs alone with the same source info and
\* the same answers: the template selected from its own document, the
\* TileSetInfo parsed with it, the URL its urlFunction makes
AloneTemplate(c) == [set |-> TRUE, val |-> Selected(c).href]
AloneInfo(c) ==
  parseTileMatrixSet(sourceInfo[c], AloneTemplate(c), matrixSet[c].val).info

\* the rejection of call c running alone with the same answers
AloneError(c) ==
  LET meta == parseTileSetMetadata(sourceInfo[c], tileSet[c])
  IN IF rootAnswer[c] = "failed" THEN "getJSON failed"
     ELSE IF meta.kind = "throw" THEN meta.error
     ELSE IF matrixSet[c].set
          THEN parseTileMatrixSet(sourceInfo[c], AloneTemplate(c),
                                  matrixSet[c].val).error
          ELSE "getJSON failed"

\* C8: calls under way at once share no state: whatever the order of the
\* answers, each call's urlTemplate, each URL of its urlFunction and its
\* rejection are those of the call running alone, and each call makes its
\* own fetches.
C8_CallsAreIndependent ==
  \A c \in Calls :
    /\ pc[c] /= "idle" =>
         fetches[c][1] = [base |-> sourceInfo[c].url, url |-> ""]
    /\ pc[c] = "fetchMatrixSet" => Len(fetches[c]) = 2
    /\ pc[c] = "resolved" =>
         /\ tileSetInfo[c].urlTemplate = AloneTemplate(c)
         /\ tileSetInfo[c] = AloneInfo(c)
    /\ lastCall[c].called =>
         lastCall[c].result =
           tileUrlFunction(AloneInfo(c), AloneTemplate(c), lastCall[c].coord)
    /\ pc[c] = "rejected" => error[c] = AloneError(c)

\* C8 witness: two calls for the same source resolved with different
\* templates, and their urlFunctions, both called, gave different URLs.
C8_Witness ==
  /\ pc[1] = "resolved" /\ pc[2] = "resolved"
  /\ sourceInfo[1].url = sourceInfo[2].url
  /\ tileSetInfo[1].urlTemplate /= tileSetInfo[2].urlTemplate
  /\ lastCall[1].called /\ lastCall[2].called
  /\ lastCall[1].result /= lastCall[2].result

====
